---- MODULE Spec2Model ----
(***************************************************************************)
(* Python-Pokedex: the chain of request handlers of pokedex.py and the     *)
(* asynchronous fan-out / fan-in retrieval of pokeretreiver/query.py.      *)
(*                                                                         *)
(* Strings are sequences of one-character strings, so that lower(),        *)
(* split(), strip() and endswith() are computed rather than assumed.       *)
(***************************************************************************)
EXTENDS Integers, Sequences, FiniteSets, TLC

VARIABLES
    entry,      \* the operation being executed: "pokedex" | "querymaster" | "output"
    req,        \* the Request object (pokedex.py Request)
    req0,       \* the Request as it was handed to the operation
    pc,         \* control point of the operation
    stages,     \* the handlers that have run, in order
    out,        \* lines printed by Pokedex.execute_request and OutputHandler
    result,     \* the local `result` of QueryMaster.execute_request
    tasks,      \* the tasks of the batch handed to asyncio.gather
    completed,  \* indexes of the finished tasks, in completion order
    batch,      \* the batch in flight: "none" | "ids" | "stats" | "moves" | "abilities"
    cur,        \* index in `result` of the pokemon being expanded
    gets,       \* every GET issued through session.request, in order
    exc,        \* the exception that left the operation, or "none"
    written     \* the files opened for writing, with the lines written to them

vars == <<entry, req, req0, pc, stages, out, result, tasks, completed,
          batch, cur, gets, exc, written>>

----------------------------------------------------------------------------
(* Bounds of the model. *)

MaxIds == 2      \* longest list of ids handed to QueryMaster.execute_request
MaxRefs == 2     \* longest stats / moves / abilities list of a pokemon payload

----------------------------------------------------------------------------
(* Strings *)

UpperChars == <<"A", "B", "C", "D", "E", "F", "G", "H", "I", "J", "K", "L", "M",
                "N", "O", "P", "Q", "R", "S", "T", "U", "V", "W", "X", "Y", "Z">>
LowerChars == <<"a", "b", "c", "d", "e", "f", "g", "h", "i", "j", "k", "l", "m",
                "n", "o", "p", "q", "r", "s", "t", "u", "v", "w", "x", "y", "z">>

\* str.lower() on one character
LowerChar(c) ==
    IF \E k \in DOMAIN UpperChars : UpperChars[k] = c
    THEN LowerChars[CHOOSE k \in DOMAIN UpperChars : UpperChars[k] = c]
    ELSE c

\* str.upper() on one character
UpperChar(c) ==
    IF \E k \in DOMAIN LowerChars : LowerChars[k] = c
    THEN UpperChars[CHOOSE k \in DOMAIN LowerChars : LowerChars[k] = c]
    ELSE c

\* str.lower()
Lower(s) == [k \in DOMAIN s |-> LowerChar(s[k])]

\* str.capitalize()
Capitalize(s) ==
    [k \in DOMAIN s |-> IF k = 1 THEN UpperChar(s[k]) ELSE LowerChar(s[k])]

\* str.endswith(suffix)
EndsWith(s, suffix) ==
    /\ Len(s) >= Len(suffix)
    /\ SubSeq(s, Len(s) - Len(suffix) + 1, Len(s)) = suffix

\* `sub in s` on strings
Contains(s, sub) ==
    \E k \in 0..(Len(s) - Len(sub)) : SubSeq(s, k + 1, k + Len(sub)) = sub

IsSpace(c) == c \in {" ", "\n", "\t"}

RECURSIVE LStrip(_)
LStrip(s) == IF s # <<>> /\ IsSpace(Head(s)) THEN LStrip(Tail(s)) ELSE s

RECURSIVE RStrip(_)
RStrip(s) ==
    IF s # <<>> /\ IsSpace(s[Len(s)]) THEN RStrip(SubSeq(s, 1, Len(s) - 1)) ELSE s

\* str.strip()
Strip(s) == RStrip(LStrip(s))

\* str.split(" "): every single blank is a delimiter
RECURSIVE SplitBlank(_, _)
SplitBlank(s, word) ==
    IF s = <<>> THEN <<word>>
    ELSE IF Head(s) = " " THEN <<word>> \o SplitBlank(Tail(s), <<>>)
    ELSE SplitBlank(Tail(s), Append(word, Head(s)))

Split(s) == SplitBlank(s, <<>>)

TxtSuffix == <<".", "t", "x", "t">>
PrintTarget == <<"p", "r", "i", "n", "t">>

----------------------------------------------------------------------------
(* PokedexMode and the endpoint *)

POKEMON == <<"p", "o", "k", "e", "m", "o", "n">>
ABILITY == <<"a", "b", "i", "l", "i", "t", "y">>
MOVE == <<"m", "o", "v", "e">>
STAT == <<"s", "t", "a", "t">>

PokedexMode == {POKEMON, ABILITY, MOVE}

ApiRoot == <<"h", "t", "t", "p", "s", ":", "/", "/", "p", "o", "k", "e", "a", "p", "i",
             ".", "c", "o", "/", "a", "p", "i", "/", "v", "2", "/">>

\* f"https://pokeapi.co/api/v2/{request.mode.value}/"
BaseUrl(mode) == ApiRoot \o mode \o <<"/">>


DigitChars == <<"0", "1", "2", "3", "4", "5", "6", "7", "8", "9">>

\* str(n) for n >= 0
RECURSIVE IntToStr(_)
IntToStr(n) ==
    IF n < 10 THEN <<DigitChars[n + 1]>>
    ELSE Append(IntToStr(n \div 10), DigitChars[(n % 10) + 1])

----------------------------------------------------------------------------
(* Python values *)

PyNone == [t |-> "None"]
PyStr(s) == [t |-> "str", s |-> s]
PyList(l) == [t |-> "list", l |-> l]
EmptyDict == [t |-> "dict", empty |-> TRUE]

\* a decoded JSON body: the resource at `url`; `complete` says that every key
\* the constructor requires is present, `ee` is len(effect_entries) and `n`
\* the length of each of the stats, moves and abilities lists
Dict(url, complete, ee, n) ==
    [t |-> "dict", empty |-> FALSE, url |-> url, complete |-> complete, ee |-> ee, n |-> n]

\* one entry of a pokemon payload's stats / moves / abilities list:
\* entry[<kind>]["url"]
Ref(kind, k) == [t |-> "ref", url |-> ApiRoot \o kind \o <<"/">> \o IntToStr(k) \o <<"/">>]

RefList(kind, n) == [k \in 1..n |-> Ref(kind, k)]

\* error = "An error occurred. Skipping this request.\n"
ErrorMarker == [t |-> "str", text |-> "An error occurred. Skipping this request.\n"]

Raise(e) == [t |-> "raise", exc |-> e]

----------------------------------------------------------------------------
(* pokedex_objects.py: the constructors behind the factories *)

\* Pokemon.__init__: every keyword but is_expanded is required
Pokemon(info, is_expanded) ==
    IF ~info.complete THEN Raise("TypeError")
    ELSE [t |-> "Pokemon", name |-> info.url,
          stats |-> RefList(STAT, info.n),
          moves |-> RefList(MOVE, info.n),
          abilities |-> RefList(ABILITY, info.n),
          is_expanded |-> is_expanded]

\* Ability.__init__ reads effect_entries[1]
AbilityEffectIndex == 1
Ability(info) ==
    IF ~info.complete THEN Raise("TypeError")
    ELSE IF info.ee <= AbilityEffectIndex THEN Raise("IndexError")
    ELSE [t |-> "Ability", name |-> info.url, effect |-> AbilityEffectIndex]

\* Move.__init__ reads effect_entries[0]
MoveEffectIndex == 0
Move(info) ==
    IF ~info.complete THEN Raise("TypeError")
    ELSE IF info.ee <= MoveEffectIndex THEN Raise("IndexError")
    ELSE [t |-> "Move", name |-> info.url, short_effect |-> MoveEffectIndex]

\* Stat.__init__
Stat(info) ==
    IF ~info.complete THEN Raise("TypeError")
    ELSE [t |-> "Stat", name |-> info.url]

\* the text __str__ starts with, for each class
StrHeader(t) ==
    IF t = "Pokemon" THEN "\nPokemon: "
    ELSE IF t = "Ability" THEN "\nAbility Name: "
    ELSE IF t = "Move" THEN "\n\nMove Name: "
    ELSE "\nStat Name: "

\* str(x) of an entry of req.result: the error string itself, or the head of
\* __str__, the header of the class followed by name.capitalize(); the lines
\* after it print fields that the records here do not carry
Str(x) ==
    IF x.t = "str" THEN <<x.text>>
    ELSE <<StrHeader(x.t)>> \o Capitalize(x.name)

\* factory.create_object(**info [, is_expanded=True]) for the factory of `kind`;
\* ** on None raises, and an empty mapping leaves every required keyword missing
create_object(kind, info, is_expanded) ==
    IF info = PyNone \/ info = EmptyDict THEN Raise("TypeError")
    ELSE IF kind = POKEMON THEN Pokemon(info, is_expanded)
    ELSE IF kind = ABILITY THEN Ability(info)
    ELSE IF kind = MOVE THEN Move(info)
    ELSE Stat(info)

----------------------------------------------------------------------------
(* The remote service, as seen through aiohttp *)

\* the lengths of effect_entries around the indexes the constructors read
EffectEntryCounts == 0..(AbilityEffectIndex + 1)

\* the statuses the service answers with besides 200 and 404
OtherStatuses == {500}

\* the decoded bodies the service may send with a 200 for a resource of `kind`
Bodies(kind, url) ==
    IF kind = POKEMON
    THEN {Dict(url, TRUE, 0, n) : n \in {0, MaxRefs}} \cup {Dict(url, FALSE, 0, 0)}
    ELSE IF kind \in {ABILITY, MOVE}
    THEN {Dict(url, TRUE, ee, 0) : ee \in EffectEntryCounts} \cup {Dict(url, FALSE, 0, 0)}
    ELSE {Dict(url, c, 0, 0) : c \in BOOLEAN}

\* what one session.request can end in: a response with a status and a body,
\* or an exception of the transport (fail)
Responses(kind, url) ==
    {[fail |-> FALSE, status |-> 200, body |-> b] : b \in Bodies(kind, url)}
    \cup {[fail |-> FALSE, status |-> st, body |-> PyNone] : st \in {404} \cup OtherStatuses}
    \cup {[fail |-> TRUE, status |-> 0, body |-> PyNone]}

----------------------------------------------------------------------------
(* query.py: JsonHelper *)

\* JsonHelper.get_pokedex_object_data after `await session.request(...)`:
\* what the coroutine returns, or the exception it ends with
get_pokedex_object_data(resp) ==
    IF resp.fail THEN Raise("ClientError")
    ELSE IF Contains(IntToStr(resp.status), <<"2", "0", "0">>) THEN resp.body
    ELSE IF Contains(IntToStr(resp.status), <<"4", "0", "4">>) THEN EmptyDict
    ELSE PyNone

\* asyncio.create_task(JsonHelper.get_pokedex_object_data(url, session)):
\* the coroutine requests url.lower()
\* the coroutine as it would be if it requested the url as given
NewTaskNoLower(url) == [url |-> url, state |-> "pending", resp |-> PyNone, value |-> PyNone]

NewTask(url) == [url |-> Lower(url), state |-> "pending", resp |-> PyNone, value |-> PyNone]

\* gather as it would be if it collected the values as the tasks finish
GatherResultAsCompleted(ts, order) == [i \in DOMAIN ts |-> ts[order[i]].value]

\* list(await asyncio.gather(*tasks)): the values in the order of the tasks
GatherResult(ts, order) == [i \in DOMAIN ts |-> ts[i].value]

\* the resource kind a batch asks for
BatchKind(b) ==
    IF b = "ids" THEN req.mode
    ELSE IF b = "stats" THEN STAT
    ELSE IF b = "moves" THEN MOVE
    ELSE ABILITY

\* the urls of a batch without the first of them
BatchUrlsSkipFirst(b) ==
    IF b = "ids"
    THEN [i \in 1..(Len(req.input_data.l) - 1) |-> BaseUrl(req.mode) \o req.input_data.l[i + 1]]
    ELSE IF b = "stats" THEN [i \in 1..(Len(result[cur].stats) - 1) |-> result[cur].stats[i + 1].url]
    ELSE IF b = "moves" THEN [i \in 1..(Len(result[cur].moves) - 1) |-> result[cur].moves[i + 1].url]
    ELSE [i \in 1..(Len(result[cur].abilities) - 1) |-> result[cur].abilities[i + 1].url]

\* the urls of a batch: url + id_ for the ids of the request (process_request),
\* entry[<kind>]["url"] for the references of the pokemon (get_stats, get_moves,
\* get_abilities)
BatchUrls(b) ==
    IF b = "ids" THEN [i \in DOMAIN req.input_data.l |-> BaseUrl(req.mode) \o req.input_data.l[i]]
    ELSE IF b = "stats" THEN [i \in DOMAIN result[cur].stats |-> result[cur].stats[i].url]
    ELSE IF b = "moves" THEN [i \in DOMAIN result[cur].moves |-> result[cur].moves[i].url]
    ELSE [i \in DOMAIN result[cur].abilities |-> result[cur].abilities[i].url]

\* the list comprehension that creates the tasks, which all issue their GET
\* before the first of them is resumed
StartBatch(b) ==
    /\ tasks' = [i \in DOMAIN BatchUrls(b) |-> NewTask(BatchUrls(b)[i])]
    /\ gets' = gets \o [i \in DOMAIN BatchUrls(b) |-> [batch |-> b, url |-> NewTask(BatchUrls(b)[i]).url]]
    /\ completed' = <<>>
    /\ batch' = b
    /\ pc' = "gather"

----------------------------------------------------------------------------
(* The file system and the requests handed to the program *)

InputTxt == <<"i", ".", "t", "x", "t">>     \* an existing text file
InputCsv == <<"i", ".", "c", "s", "v">>     \* an existing file that is no .txt
MissingTxt == <<"n", ".", "t", "x", "t">>   \* no such file
MissingDat == <<"n">>                       \* no such file, and no .txt

\* os.path.isfile
IsFile(path) == path \in {InputTxt, InputCsv}

\* input_file.readlines(): the lines with their line ends
ReadLines(path) ==
    IF path = InputTxt THEN << <<"1", "\n">>, <<"\n">>, <<"P", "i">> >>
    ELSE << <<"2", "\n">> >>

\* --inputdata strings
InputStrings == { <<"1", " ", "2">>, <<"P", "i", " ", " ", "1">> }

OutputTxt == <<"o", ".", "t", "x", "t">>
OutputCsv == <<"o", ".", "c", "s", "v">>

\* the lists of ids handed to QueryMaster.execute_request: the first ids of
\* IdPool, and the two ids of it that differ in letter case only
IdPool == << <<"P", "i">>, <<"1">>, <<"2">>, <<"p", "i">> >>

IdLists == {SubSeq(IdPool, 1, n) : n \in 1..MaxIds} \cup {<<IdPool[1], IdPool[4]>>}

\* the Request objects handed to Pokedex.execute_request
PokedexRequests ==
    [mode : PokedexMode,
     input_data : {PyNone} \cup {PyStr(s) : s \in InputStrings},
     input_file : {PyNone} \cup {PyStr(f) : f \in {InputTxt, InputCsv, MissingTxt, MissingDat}},
     expanded : BOOLEAN,
     output : {PrintTarget, OutputTxt, OutputCsv},
     result : {PyNone}]

\* the Request objects handed to QueryMaster.execute_request: input_data is
\* already the list of ids
QueryMasterRequests ==
    [mode : PokedexMode,
     input_data : {PyList(l) : l \in IdLists},
     input_file : {PyNone},
     expanded : BOOLEAN,
     output : {PrintTarget},
     result : {PyNone}]

\* the objects a filled req.result holds for the ids of IdPool in mode `mode`,
\* the second of them being the error string
ResultPool(mode) ==
    [i \in DOMAIN IdPool |->
        IF i = 2 THEN ErrorMarker
        ELSE create_object(mode,
                 Dict(Lower(BaseUrl(mode) \o IdPool[i]), TRUE, AbilityEffectIndex + 1, 0),
                 FALSE)]

\* the values of req.result in mode `mode`: a list of pokedex objects and error
\* strings, or still None
Results(mode) == {PyNone} \cup {PyList(SubSeq(ResultPool(mode), 1, n)) : n \in 0..MaxIds}

\* the Request objects handed to OutputHandler.handle_request
OutputRequests ==
    UNION {[mode : {m}, input_data : {PyNone}, input_file : {PyNone}, expanded : {FALSE},
            output : {PrintTarget, OutputTxt}, result : Results(m)] : m \in PokedexMode}

Init ==
    /\ \/ entry = "pokedex" /\ req \in PokedexRequests /\ pc = "validate"
       \/ entry = "querymaster" /\ req \in QueryMasterRequests /\ pc = "qm_start"
       \/ entry = "output" /\ req \in OutputRequests /\ pc = "output"
    /\ written = {}
    /\ req0 = req
    /\ stages = <<>>
    /\ out = <<>>
    /\ result = <<>>
    /\ tasks = <<>>
    /\ completed = <<>>
    /\ batch = "none"
    /\ cur = 0
    /\ gets = <<>>
    /\ exc = "none"

----------------------------------------------------------------------------
(* pokedex.py: the chain of handlers built by Pokedex.__init__ *)

\* Pokedex.execute_request, after the chain returned (message, False)
HandlerError(msg) ==
    /\ out' = Append(out, <<"Handler error:", msg>>)
    /\ pc' = "aborted"
    /\ exc' = exc

\* an exception nothing catches
Uncaught(e) ==
    /\ pc' = "raised"
    /\ exc' = e

\* the checks without the one of the suffix of the input file
ValidateFilePathsNoInputSuffix(r) ==
    IF r.input_file # PyNone /\ ~IsFile(r.input_file.s)
    THEN "File does not exist at input path"
    ELSE IF r.output # PrintTarget /\ ~EndsWith(r.output, TxtSuffix)
    THEN "Output file must be a text file"
    ELSE ""

\* the checks with the suffix of the input file looked at before its existence
ValidateFilePathsSuffixFirst(r) ==
    IF r.input_file # PyNone /\ ~EndsWith(r.input_file.s, TxtSuffix)
    THEN "Input file must be a text file"
    ELSE IF r.input_file # PyNone /\ ~IsFile(r.input_file.s)
    THEN "File does not exist at input path"
    ELSE IF r.output # PrintTarget /\ ~EndsWith(r.output, TxtSuffix)
    THEN "Output file must be a text file"
    ELSE ""

\* the checks of ValidateFilePathsHandler.handle_request: the message it
\* returns with False, or "" when it passes the request on
ValidateFilePaths(r) ==
    IF r.input_file # PyNone /\ ~IsFile(r.input_file.s)
    THEN "File does not exist at input path"
    ELSE IF r.input_file # PyNone /\ ~EndsWith(r.input_file.s, TxtSuffix)
    THEN "Input file must be a text file"
    ELSE IF r.output # PrintTarget /\ ~EndsWith(r.output, TxtSuffix)
    THEN "Output file must be a text file"
    ELSE ""

ValidateFilePathsHandler ==
    /\ pc = "validate"
    /\ stages' = Append(stages, "Validate")
    /\ IF ValidateFilePaths(req) # ""
       THEN HandlerError(ValidateFilePaths(req))
       ELSE pc' = "input" /\ UNCHANGED <<out, exc>>
    /\ UNCHANGED <<entry, written, req, req0, result, tasks, completed, batch, cur, gets>>

\* [id_.strip() for id_ in req.input_data]
StripAll(l) == [i \in DOMAIN l |-> Strip(l[i])]

InputHandler ==
    /\ pc = "input"
    /\ stages' = Append(stages, "Normalize")
    /\ IF req.input_file = PyNone /\ req.input_data = PyNone
       THEN \* None has no split
            Uncaught("AttributeError") /\ UNCHANGED req
       ELSE /\ req' = [req EXCEPT !.input_data =
                        IF req.input_file = PyNone
                        THEN PyList(StripAll(Split(req.input_data.s)))
                        ELSE PyList(StripAll(ReadLines(req.input_file.s)))]
            /\ pc' = "query"
            /\ exc' = exc
    /\ UNCHANGED <<entry, written, req0, out, result, tasks, completed, batch, cur, gets>>

\* QueryHandler.handle_request asks the module pokeretreiver.query for
\* process_request, which is a static method of JsonHelper and no attribute of
\* the module: the call raises before any request is made
QueryHandler ==
    /\ pc = "query"
    /\ stages' = Append(stages, "Fetch")
    /\ Uncaught("AttributeError")
    /\ UNCHANGED <<entry, written, req, req0, out, result, tasks, completed, batch, cur, gets>>

\* open(path, mode="w"): the file is created or emptied, then holds `lines`
OpenAndWrite(fs, path, lines) ==
    {f \in fs : f.path # path} \cup {[path |-> path, lines |-> lines]}

\* OutputHandler.handle_request, the last handler of the chain: the results are
\* printed after a blank line when the output is "print", and req.output is
\* opened for writing in either case, the `else` before it being a comment;
\* a result that is still None ends the first loop over it
OutputHandler ==
    /\ pc = "output"
    /\ stages' = Append(stages, "Render")
    /\ IF req.result = PyNone
       THEN /\ out' = IF req.output = PrintTarget THEN Append(out, <<>>) ELSE out
            /\ written' = IF req.output = PrintTarget THEN written
                           ELSE OpenAndWrite(written, req.output, <<>>)
            /\ Uncaught("TypeError")
       ELSE /\ out' = IF req.output = PrintTarget
                      THEN Append(out, <<>>) \o
                           [i \in DOMAIN req.result.l |-> Str(req.result.l[i])]
                      ELSE out
            /\ written' = OpenAndWrite(written, req.output,
                              [i \in DOMAIN req.result.l |-> Str(req.result.l[i]) \o <<"\n">>])
            /\ pc' = "completed"
            /\ exc' = exc
    /\ UNCHANGED <<entry, req, req0, result, tasks, completed, batch, cur, gets>>

----------------------------------------------------------------------------
(* query.py: QueryMaster.execute_request and the batches it runs *)

AllDone(ts) == \A i \in DOMAIN ts : ts[i].state = "done"
SomeRaised(ts) == \E i \in DOMAIN ts : ts[i].state = "raised"

\* the first exception a list comprehension meets
HasRaise(l) == \E i \in DOMAIN l : l[i].t = "raise"
FirstRaise(l) == l[CHOOSE i \in DOMAIN l : l[i].t = "raise" /\ \A j \in 1..(i - 1) : l[j].t # "raise"].exc

\* loop.run_until_complete(JsonHelper.process_request(request)), up to the gather
process_request ==
    /\ pc = "qm_start"
    /\ StartBatch("ids")
    /\ UNCHANGED <<entry, written, req, req0, stages, out, result, cur, exc>>

\* one task of the batch is resumed with the outcome of its request and ends
Respond(i) ==
    /\ pc = "gather"
    /\ i \in DOMAIN tasks
    /\ tasks[i].state = "pending"
    /\ \E r \in Responses(BatchKind(batch), tasks[i].url) :
         tasks' = [tasks EXCEPT ![i] =
                     IF get_pokedex_object_data(r).t = "raise"
                     THEN [@ EXCEPT !.state = "raised", !.resp = r]
                     ELSE [@ EXCEPT !.state = "done", !.resp = r,
                                    !.value = get_pokedex_object_data(r)]]
    /\ completed' = Append(completed, i)
    /\ UNCHANGED <<entry, written, req, req0, pc, stages, out, result, batch, cur, gets, exc>>

\* asyncio.gather hands the first exception of a task to the awaiting coroutine,
\* which leaves the session and the loop; the other tasks are not awaited
gather_raise ==
    /\ pc = "gather"
    /\ SomeRaised(tasks)
    /\ Uncaught("ClientError")
    /\ UNCHANGED <<entry, written, req, req0, stages, out, result, tasks, completed, batch, cur, gets>>

\* every task has returned: process_request returns list(responses)
process_request_return ==
    /\ pc = "gather"
    /\ batch = "ids"
    /\ AllDone(tasks)
    /\ result' = GatherResult(tasks, completed)
    /\ pc' = "qm_create"
    /\ UNCHANGED <<entry, written, req, req0, stages, out, tasks, completed, batch, cur, gets, exc>>

\* the test without the flag
ShouldExpandAnyFlag(r) == r.mode = POKEMON

\* request.mode == PokedexMode.POKEMON and request.expanded
ShouldExpand(r) == r.mode = POKEMON /\ r.expanded

\* len(info) of a decoded body
PyLen(info) == IF info.empty THEN 0 ELSE 1

\* factory.create_object(**info ...) if len(info) > 0 else error
CreateOrError(kind, info, is_expanded) ==
    IF info = PyNone THEN Raise("TypeError")
    ELSE IF PyLen(info) > 0 THEN create_object(kind, info, is_expanded)
    ELSE ErrorMarker

\* the list comprehension of line 32 or of line 35
CreateAll(r, infos) ==
    [i \in DOMAIN infos |-> CreateOrError(r.mode, infos[i], ShouldExpand(r))]

create_objects ==
    /\ pc = "qm_create"
    /\ IF HasRaise(CreateAll(req, result))
       THEN Uncaught(FirstRaise(CreateAll(req, result)))
            /\ UNCHANGED <<result, cur, tasks, completed>>
       ELSE /\ result' = CreateAll(req, result)
            /\ tasks' = <<>>
            /\ completed' = <<>>
            /\ IF ShouldExpand(req)
               THEN pc' = "qm_expand" /\ cur' = 1
               ELSE pc' = "qm_done" /\ cur' = cur
            /\ exc' = exc
    /\ UNCHANGED <<entry, written, req, req0, stages, out, batch, gets>>

\* line 33: an error string is passed through
skip_marker ==
    /\ pc = "qm_expand"
    /\ cur <= Len(result)
    /\ result[cur].t = "str"
    /\ cur' = cur + 1
    /\ UNCHANGED <<entry, written, req, req0, pc, stages, out, result, tasks, completed, batch, gets, exc>>

\* line 33: JsonHelper.expand_attributes(pokemon) is entered
expand_attributes ==
    /\ pc = "qm_expand"
    /\ cur <= Len(result)
    /\ result[cur].t # "str"
    /\ pc' = "ex_start"
    /\ batch' = "stats"
    /\ UNCHANGED <<entry, written, req, req0, stages, out, result, tasks, completed, cur, gets, exc>>

\* get_stats, get_moves, get_abilities up to the gather
get_batch(b) ==
    /\ pc = "ex_start"
    /\ batch = b
    /\ StartBatch(b)
    /\ UNCHANGED <<entry, written, req, req0, stages, out, result, cur, exc>>

\* the comprehension as it would be with the filter of execute_request
\* dropping the empty payloads
BuildListSkipEmpty(kind, values) ==
    [i \in DOMAIN SelectSeq(values, LAMBDA v : v # EmptyDict) |->
        create_object(kind, SelectSeq(values, LAMBDA v : v # EmptyDict)[i], FALSE)]

\* [factory.create_object(**x) for x in responses]
BuildList(kind, values) == [i \in DOMAIN values |-> create_object(kind, values[i], FALSE)]

\* the three assignments all written to pokemon.stats
SetListStatsOnly(pokemon, b, l) == [pokemon EXCEPT !.stats = l]

SetList(pokemon, b, l) ==
    IF b = "stats" THEN [pokemon EXCEPT !.stats = l]
    ELSE IF b = "moves" THEN [pokemon EXCEPT !.moves = l]
    ELSE [pokemon EXCEPT !.abilities = l]

\* expand_attributes as it would be with the abilities fetched before the moves
NextBatchAbilitiesFirst(b) == IF b = "stats" THEN "abilities" ELSE IF b = "abilities" THEN "moves" ELSE "none"

NextBatch(b) == IF b = "stats" THEN "moves" ELSE IF b = "moves" THEN "abilities" ELSE "none"

\* the batch returned: pokemon.<b> = [...], then the next batch, or return pokemon
assign_list(b) ==
    /\ pc = "gather"
    /\ batch = b
    /\ AllDone(tasks)
    /\ IF HasRaise(BuildList(BatchKind(b), GatherResult(tasks, completed)))
       THEN /\ Uncaught(FirstRaise(BuildList(BatchKind(b), GatherResult(tasks, completed))))
            /\ UNCHANGED <<result, batch, cur, tasks, completed>>
       ELSE /\ result' = [result EXCEPT ![cur] =
                  SetList(@, b, BuildList(BatchKind(b), GatherResult(tasks, completed)))]
            /\ batch' = NextBatch(b)
            /\ tasks' = <<>>
            /\ completed' = <<>>
            /\ IF b = "abilities"
               THEN pc' = "qm_expand" /\ cur' = cur + 1
               ELSE pc' = "ex_start" /\ cur' = cur
            /\ exc' = exc
    /\ UNCHANGED <<entry, written, req, req0, stages, out, gets>>

\* return result
execute_request_return ==
    /\ pc = "qm_expand"
    /\ cur > Len(result)
    /\ pc' = "qm_done"
    /\ UNCHANGED <<entry, written, req, req0, stages, out, result, tasks, completed, batch, cur, gets, exc>>

----------------------------------------------------------------------------

Next ==
    \/ ValidateFilePathsHandler
    \/ InputHandler
    \/ QueryHandler
    \/ OutputHandler
    \/ process_request
    \/ \E i \in 1..(MaxIds + MaxRefs) : Respond(i)
    \/ gather_raise
    \/ process_request_return
    \/ create_objects
    \/ skip_marker
    \/ expand_attributes
    \/ get_batch("stats")
    \/ get_batch("moves")
    \/ get_batch("abilities")
    \/ assign_list("stats")
    \/ assign_list("moves")
    \/ assign_list("abilities")
    \/ execute_request_return

Spec == Init /\ [][Next]_vars

----------------------------------------------------------------------------
(* Properties *)

IsPrefix(s, t) == Len(s) <= Len(t) /\ s = SubSeq(t, 1, Len(s))

ExpansionBatches == {"stats", "moves", "abilities"}

\* the request of a task ended in a transport failure: an exception of the
\* request, or a status other than 200 and 404
TransportFailure(task) ==
    /\ task.resp # PyNone
    /\ task.resp.fail \/ task.resp.status \notin {200, 404}

\* C1: the batch of process_request has one task per id, task i requesting
\* url + ids[i] lower-cased; and whenever process_request has returned, its
\* result is as long as the list of ids and result[i] is the outcome of the
\* request made for ids[i] (the body of a 200, the empty payload of a 404),
\* whatever the order the requests completed in.
C1_ResultFollowsIds ==
    /\ (batch = "ids" /\ pc \in {"gather", "qm_create"}) =>
        /\ Len(tasks) = Len(req.input_data.l)
        /\ \A i \in DOMAIN tasks :
             tasks[i].url = Lower(BaseUrl(req.mode) \o req.input_data.l[i])
    /\ pc = "qm_create" =>
        /\ Len(result) = Len(req.input_data.l)
        /\ \A i \in DOMAIN result :
            /\ tasks[i].resp.status = 200 =>
                 result[i] = tasks[i].resp.body /\ result[i].url = tasks[i].url
            /\ tasks[i].resp.status = 404 => result[i] = EmptyDict

\* process_request returned two different outcomes whose requests completed
\* in the reverse of the order of the ids
C1_Witness ==
    /\ pc = "qm_create"
    /\ completed = <<2, 1>>
    /\ result[1] # result[2]
    /\ result[1] # EmptyDict
    /\ result[2] # EmptyDict

\* C2: when the request of one id of a batch ends in a transport failure, the
\* batch still returns, with the Found / NotFound outcomes of the other ids in
\* their places, and process_request does not raise.
C2_FailureIsolated ==
    (batch = "ids" /\ pc # "gather" /\ \E i \in DOMAIN tasks : TransportFailure(tasks[i])) =>
        /\ exc # "ClientError"
        /\ Len(result) = Len(tasks)
        /\ \A j \in DOMAIN tasks :
             (tasks[j].state = "done" /\ ~TransportFailure(tasks[j])) => result[j] = tasks[j].value

\* C3: once the Fetch stage of the chain has run, req.result is a list as long
\* as req.input_data whose every position is a record or the error marker, and
\* the chain goes on to Render.
C3_FetchStageFillsResult ==
    (entry = "pokedex" /\ Len(stages) >= 3) =>
        /\ pc # "raised"
        /\ req.result # PyNone
        /\ Len(req.result.l) = Len(req.input_data.l)
        /\ \A i \in DOMAIN req.result.l : req.result.l[i].t \in {"Pokemon", "Ability", "Move", "str"}

StageOrder == <<"Validate", "Normalize", "Fetch", "Render">>

\* the request names an input file that does not exist or does not end in .txt
BadInputFile(r) ==
    /\ r.input_file # PyNone
    /\ ~IsFile(r.input_file.s) \/ ~EndsWith(r.input_file.s, TxtSuffix)

\* C4: the stages run in the order Validate, Normalize, Fetch, Render, each at
\* most once; when a stage returns (message, False) the message is printed by
\* Pokedex.execute_request and no later stage has run or changed the request;
\* with an input file that Validate rejects, only Validate runs, the request is
\* as it was handed in and no GET is issued.
C4_StagesInOrderShortCircuit ==
    /\ entry = "pokedex" => IsPrefix(stages, StageOrder)
    /\ pc = "aborted" =>
        /\ Len(out) = 1 /\ out[1][1] = "Handler error:" /\ out[1][2] # ""
        /\ stages = <<"Validate">>
        /\ req = req0
        /\ gets = <<>>
    /\ (entry = "pokedex" /\ BadInputFile(req0)) =>
        /\ pc \in {"validate", "aborted"}
        /\ IsPrefix(stages, <<"Validate">>)
        /\ req = req0
        /\ gets = <<>>

\* Validate rejected an existing input file that does not end in .txt
C4_Witness ==
    /\ pc = "aborted"
    /\ req0.input_file = PyStr(InputCsv)
    /\ stages = <<"Validate">>
    /\ out = << <<"Handler error:", "Input file must be a text file">> >>

\* the request carries exactly one input source, as the command line
\* guarantees
OneInputSource(r) == (r.input_data = PyNone) # (r.input_file = PyNone)

\* C5: an execution of the chain on a request of the command line ends either
\* Completed, the Render stage having run, or Aborted, a stage having returned
\* (message, False).
C5_CompletedOrAborted ==
    (entry = "pokedex" /\ OneInputSource(req0) /\ pc \notin {"validate", "input", "query"}) =>
        \/ pc = "completed" /\ stages = StageOrder
        \/ pc = "aborted" /\ Len(out) = 1

\* C6: a fetch that has ended has returned exactly one of: the decoded body
\* (status 200), the empty payload (status 404), a TransportError value with its
\* detail (any other status, or a failure of the transport); it has not raised.
C6_ThreeOutcomes ==
    \A i \in DOMAIN tasks :
        tasks[i].resp # PyNone =>
            /\ tasks[i].state = "done"
            /\ (~TransportFailure(tasks[i]) /\ tasks[i].resp.status = 200) =>
                 tasks[i].value = tasks[i].resp.body
            /\ (~TransportFailure(tasks[i]) /\ tasks[i].resp.status = 404) =>
                 tasks[i].value = EmptyDict
            /\ TransportFailure(tasks[i]) => tasks[i].value.t = "TransportError"

\* the sentinel that marks an unavailable reference
Sentinel == [t |-> "unavailable"]

\* the list of a pokemon that batch b fills
ListOf(pokemon, b) ==
    IF b = "stats" THEN pokemon.stats
    ELSE IF b = "moves" THEN pokemon.moves
    ELSE pokemon.abilities

\* the reference of a task did not resolve: a transport failure, a 404, or a
\* body its constructor rejects
Unresolved(task, kind) ==
    /\ task.resp # PyNone
    /\ \/ TransportFailure(task)
       \/ task.resp.status = 404
       \/ create_object(kind, task.resp.body, FALSE).t = "raise"

\* C7: when a batch of expand_attributes has ended and one of its references
\* did not resolve, expand_attributes has not raised and that position of the
\* list holds the sentinel.
C7_SentinelForUnresolved ==
    \A i \in DOMAIN tasks :
        (batch \in ExpansionBatches /\ pc # "gather" /\ Unresolved(tasks[i], BatchKind(batch))) =>
            /\ pc # "raised"
            /\ ListOf(result[cur], batch)[i] = Sentinel

\* the kind of record a list of a pokemon holds after expansion
RecordTag(b) == IF b = "stats" THEN "Stat" ELSE IF b = "moves" THEN "Move" ELSE "Ability"

\* list `new` is list `old` with every reference resolved in its place
Resolved(old, new, b) ==
    /\ Len(new) = Len(old)
    /\ \A i \in DOMAIN new :
        /\ old[i].t = "ref"
        /\ new[i].t = RecordTag(b)
        /\ new[i].name = Lower(old[i].url)

\* C8: no step changes the length of the stats, moves or abilities list of a
\* pokemon: a step leaves the list as it is or replaces it by a list of the
\* same length whose entry i is the record resolved from reference i.
C8_ExpansionKeepsLengths ==
    [][\A k \in DOMAIN result :
          result[k].t = "Pokemon" =>
              /\ k \in DOMAIN result'
              /\ result'[k].t = "Pokemon"
              /\ \A b \in ExpansionBatches :
                    \/ ListOf(result'[k], b) = ListOf(result[k], b)
                    \/ Resolved(ListOf(result[k], b), ListOf(result'[k], b), b)]_vars

\* a pokemon with lists of MaxRefs references each has been expanded
C8_Witness ==
    /\ pc = "qm_done"
    /\ \E k \in DOMAIN result :
        /\ result[k].t = "Pokemon"
        /\ Len(result[k].stats) = MaxRefs /\ result[k].stats[1].t = "Stat"
        /\ Len(result[k].moves) = MaxRefs /\ result[k].moves[1].t = "Move"
        /\ Len(result[k].abilities) = MaxRefs /\ result[k].abilities[1].t = "Ability"

\* every entry of the three lists of a pokemon is a resolved record
FullyExpanded(pokemon) ==
    \A b \in ExpansionBatches :
        \A i \in DOMAIN ListOf(pokemon, b) : ListOf(pokemon, b)[i].t = RecordTag(b)

\* every entry of the three lists of a pokemon is a raw reference
Unexpanded(pokemon) ==
    \A b \in ExpansionBatches :
        \A i \in DOMAIN ListOf(pokemon, b) : ListOf(pokemon, b)[i].t = "ref"

Malformed(task) ==
    /\ task.resp # PyNone
    /\ ~task.resp.fail
    /\ task.resp.status = 200
    /\ create_object(req.mode, task.resp.body, FALSE).t = "raise"

\* C10: when the records of a batch have been constructed and the payload of
\* one id was malformed, execute_request has not raised and that position of
\* the result holds the error marker.
C10_MalformedRecovered ==
    \A i \in DOMAIN tasks :
        (batch = "ids" /\ pc \notin {"gather", "qm_create"} /\ AllDone(tasks) /\ Malformed(tasks[i])) =>
            /\ pc # "raised"
            /\ result[i] = ErrorMarker

\* C11: when the request carries both an input string and an input file, or
\* neither, the Normalize stage returns (message, False) and the chain stops
\* there; with exactly one of them it does not reject the request.
C11_NormalizeRejectsBothOrNeither ==
    (entry = "pokedex" /\ Len(stages) >= 2) =>
        IF OneInputSource(req0)
        THEN pc # "aborted"
        ELSE /\ pc = "aborted"
             /\ stages = <<"Validate", "Normalize">>
             /\ Len(out) = 1

\* the words of a string, any run of whitespace being one delimiter
RECURSIVE Words(_, _)
Words(s, word) ==
    IF s = <<>> THEN (IF word = <<>> THEN <<>> ELSE <<word>>)
    ELSE IF IsSpace(Head(s))
    THEN (IF word = <<>> THEN <<>> ELSE <<word>>) \o Words(Tail(s), <<>>)
    ELSE Words(Tail(s), Append(word, Head(s)))

\* the lines of a file trimmed, the blank ones left out
NonBlankLines(lines) == SelectSeq([i \in DOMAIN lines |-> Strip(lines[i])], LAMBDA x : x # <<>>)

\* C12: after the Normalize stage req.input_data is the list of the trimmed,
\* non-empty ids in input order: the words of the input string, or the
\* non-blank lines of the input file.
C12_ItemsTrimmedNonEmpty ==
    (entry = "pokedex" /\ Len(stages) >= 2 /\ req.input_data.t = "list") =>
        /\ \A i \in DOMAIN req.input_data.l :
            /\ req.input_data.l[i] # <<>>
            /\ Strip(req.input_data.l[i]) = req.input_data.l[i]
        /\ req.input_data.l =
             IF req0.input_file = PyNone
             THEN Words(req0.input_data.s, <<>>)
             ELSE NonBlankLines(ReadLines(req0.input_file.s))

\* the url requested for each item of batch b: an id of the request, or a
\* reference of the pokemon being expanded
ItemUrls(b) ==
    IF b = "ids"
    THEN [i \in DOMAIN req.input_data.l |-> Lower(BaseUrl(req.mode) \o req.input_data.l[i])]
    ELSE [i \in DOMAIN ListOf(result[cur], b) |-> Lower(ListOf(result[cur], b)[i].url)]

\* C13: the step that starts a batch issues exactly one GET for each of its
\* items, in their order, and creates one task for each; no other step issues
\* a GET, so that no item is requested twice, none is left out and none is
\* requested again after its request failed or found nothing.
C13_OneGetPerItem ==
    [][IF pc # "gather" /\ pc' = "gather"
       THEN /\ Len(tasks') = Len(ItemUrls(batch'))
            /\ gets' = gets \o [i \in DOMAIN ItemUrls(batch') |->
                                   [batch |-> batch', url |-> ItemUrls(batch')[i]]]
       ELSE gets' = gets]_vars

\* execute_request returned an error marker for an absent id next to a pokemon
\* it expanded, having issued one GET for each id and each reference
C13_Witness ==
    /\ pc = "qm_done"
    /\ Len(result) >= 2
    /\ \E k, m \in DOMAIN result :
        /\ result[k] = ErrorMarker
        /\ result[m].t = "Pokemon" /\ Len(result[m].stats) = MaxRefs
    /\ Len(gets) = Len(req.input_data.l) + 3 * MaxRefs

\* the output target of the request is neither "print" nor a .txt path
BadOutput(r) == r.output # PrintTarget /\ ~EndsWith(r.output, TxtSuffix)

\* C14: once Validate has run, the chain is aborted exactly when the request
\* names an input file that does not exist or does not end in .txt, or an
\* output target that is neither "print" nor ends in .txt; otherwise the
\* request went on to the next stage. An input file that does not exist is
\* reported as such, whether or not it ends in .txt.
C14_ValidateRejectsExactly ==
    (entry = "pokedex" /\ Len(stages) >= 1) =>
        /\ pc = "aborted" <=> (BadInputFile(req0) \/ BadOutput(req0))
        /\ pc = "aborted" => stages = <<"Validate">>
        /\ pc # "aborted" => (pc = "input" \/ Len(stages) >= 2)
        /\ (req0.input_file # PyNone /\ ~IsFile(req0.input_file.s)) =>
             out = << <<"Handler error:", "File does not exist at input path">> >>
        /\ (req0.input_file # PyNone /\ IsFile(req0.input_file.s)
                /\ ~EndsWith(req0.input_file.s, TxtSuffix)) =>
             out = << <<"Handler error:", "Input file must be a text file">> >>
        /\ (~BadInputFile(req0) /\ BadOutput(req0)) =>
             out = << <<"Handler error:", "Output file must be a text file">> >>

\* Validate rejected an input path that neither exists nor ends in .txt
C14_Witness ==
    /\ pc = "aborted"
    /\ req0.input_file = PyStr(MissingDat)
    /\ out = << <<"Handler error:", "File does not exist at input path">> >>

\* C15 as stated: in every state, a pokemon of the result whose is_expanded is
\* true holds no raw reference in its stats, moves and abilities.
C15_ExpandedFlagMeansResolved ==
    \A k \in DOMAIN result :
        (result[k].t = "Pokemon" /\ result[k].is_expanded) => FullyExpanded(result[k])

\* C15 as amended: every pokemon whose expansion has returned (those before
\* `cur`) has is_expanded true and only resolved records in its three lists,
\* and so has every pokemon with is_expanded true of the result that
\* execute_request returns.
C15_ExpandedWhenReturned ==
    /\ \A k \in DOMAIN result :
        (result[k].t = "Pokemon" /\ k < cur) =>
            result[k].is_expanded /\ FullyExpanded(result[k])
    /\ pc = "qm_done" =>
        \A k \in DOMAIN result :
            (result[k].t = "Pokemon" /\ result[k].is_expanded) => FullyExpanded(result[k])

\* execute_request returned a pokemon with is_expanded true whose lists of
\* MaxRefs references are all resolved
C15_Witness ==
    /\ pc = "qm_done"
    /\ \E k \in DOMAIN result :
        /\ result[k].t = "Pokemon" /\ result[k].is_expanded
        /\ Len(result[k].abilities) = MaxRefs
        /\ FullyExpanded(result[k])

\* C16: the fetch is a barrier without cancellation: once process_request has
\* left its gather (returned or raised), no task of the batch is still pending.
C16_BatchRunsToCompletion ==
    pc # "gather" => \A i \in DOMAIN tasks : tasks[i].state # "pending"

\* C17: the url requested for the i-th id of the request is the base url
\* https://pokeapi.co/api/v2/<mode>/ followed by the lower-cased id, for the
\* three modes: the base url is requested as it is written, and two ids that
\* differ in letter case only are requested under the same url.
C17_UrlIsBasePlusLowerId ==
    /\ \A i \in DOMAIN gets :
        gets[i].batch = "ids" =>
            /\ req.mode \in {POKEMON, ABILITY, MOVE}
            /\ gets[i].url = ApiRoot \o req.mode \o <<"/">> \o Lower(req.input_data.l[i])
    /\ (pc = "gather" /\ batch = "ids") =>
        /\ \A i \in DOMAIN tasks : tasks[i].url = gets[i].url
        /\ \A i, j \in DOMAIN tasks :
            Lower(req.input_data.l[i]) = Lower(req.input_data.l[j]) =>
                tasks[i].url = tasks[j].url

\* the ids "Pi" and "pi" of one request are both being requested as
\* https://pokeapi.co/api/v2/ability/pi
C17_Witness ==
    /\ pc = "gather" /\ batch = "ids"
    /\ req.mode = ABILITY
    /\ req.input_data.l = << <<"P", "i">>, <<"p", "i">> >>
    /\ tasks[1].url = ApiRoot \o ABILITY \o <<"/", "p", "i">>
    /\ tasks[2].url = tasks[1].url

\* the batches of expand_attributes in the order of its three statements
ExpansionOrder == <<"stats", "moves", "abilities">>

BatchBefore(b, c) ==
    \E i, j \in DOMAIN ExpansionOrder :
        ExpansionOrder[i] = b /\ ExpansionOrder[j] = c /\ i < j

ListRaw(pokemon, b) == \A i \in DOMAIN ListOf(pokemon, b) : ListOf(pokemon, b)[i].t = "ref"

ListResolved(pokemon, b) ==
    \A i \in DOMAIN ListOf(pokemon, b) : ListOf(pokemon, b)[i].t = RecordTag(b)

\* a batch of expand_attributes is about to start or in flight
InExpansion == pc \in {"ex_start", "gather"} /\ batch \in ExpansionBatches

\* C19: every request for an id precedes every request for a reference, and
\* once a reference was requested every entry of the result is a constructed
\* pokemon or an error marker; while a batch of expand_attributes is starting
\* or in flight the pokemon before the current one are expanded and those
\* after it untouched, and of the current one the lists of the batches before
\* this one in the order stats, moves, abilities are replaced and the others
\* raw; the tasks in flight are those of the last batch started, and between
\* two batches no task is pending.
C19_WavesInOrder ==
    /\ \A i, j \in DOMAIN gets :
        (gets[i].batch = "ids" /\ gets[j].batch # "ids") => i < j
    /\ (\E j \in DOMAIN gets : gets[j].batch # "ids") =>
        \A k \in DOMAIN result : result[k].t \in {"Pokemon", "str"}
    /\ InExpansion =>
        /\ cur \in DOMAIN result
        /\ result[cur].t = "Pokemon"
        /\ \A k \in DOMAIN result :
            result[k].t = "Pokemon" =>
                /\ k < cur => FullyExpanded(result[k])
                /\ k > cur => Unexpanded(result[k])
        /\ \A b \in ExpansionBatches :
            IF BatchBefore(b, batch)
            THEN ListResolved(result[cur], b)
            ELSE ListRaw(result[cur], b)
    /\ pc = "gather" =>
        /\ Len(tasks) <= Len(gets)
        /\ \A i \in DOMAIN tasks :
            /\ gets[Len(gets) - Len(tasks) + i].batch = batch
            /\ gets[Len(gets) - Len(tasks) + i].url = tasks[i].url
    /\ pc \in {"qm_create", "qm_expand", "ex_start", "qm_done"} =>
        \A i \in DOMAIN tasks : tasks[i].state # "pending"

\* the abilities of the second pokemon are in flight, its stats and moves and
\* the whole first pokemon being expanded
C19_Witness ==
    /\ pc = "gather" /\ batch = "abilities" /\ cur = 2
    /\ result[1].t = "Pokemon" /\ Len(result[1].abilities) = MaxRefs
    /\ FullyExpanded(result[1])
    /\ Len(result[2].moves) = MaxRefs
    /\ ListResolved(result[2], "moves") /\ ListRaw(result[2], "abilities")
    /\ \E i \in DOMAIN tasks : tasks[i].state = "pending"

\* the lines OutputHandler renders for the results of the request
Rendered(r) == [i \in DOMAIN r.result.l |-> Str(r.result.l[i])]

\* C18: when OutputHandler has returned, the results went to the console or to
\* the output file and not to both: with the output "print" every result is
\* printed in order and no file is created or written, and otherwise every
\* result is written in order to the output file and nothing is printed.
C18_ConsoleOrFileNotBoth ==
    (entry = "output" /\ pc = "completed") =>
        IF req.output = PrintTarget
        THEN /\ out = <<<<>>>> \o Rendered(req)
             /\ written = {}
        ELSE /\ out = <<>>
             /\ written = {[path |-> req.output,
                            lines |-> [i \in DOMAIN Rendered(req) |-> Rendered(req)[i] \o <<"\n">>]]}

====
